---- MODULE Spec2Model ----
(***************************************************************************)
(* Group-order coordination of vendor-bridge-rasoi: the firestore service  *)
(* functions createGroupOrder / joinGroupOrder / getActiveGroupOrders and  *)
(* the GroupOrderManager component that drives them.                       *)
(*                                                                         *)
(* One GroupOrderManager is mounted (the session of user "u1", or of no    *)
(* user).  Besides it, every user may call the exported service functions  *)
(* directly (another tab, another client): one call in flight per user.    *)
(* The document store answers each request atomically and may fail it.     *)
(*                                                                         *)
(* Time is counted in clock ticks; a datetime-local form value has minute  *)
(* resolution, TicksPerMinute ticks to the minute.  The browser is taken   *)
(* to run in UTC, so that the datetime-local value and toISOString() name  *)
(* the same minute.                                                        *)
(***************************************************************************)
EXTENDS Integers, Sequences, FiniteSets, TLC

\* ------------------------------------------------------------------ bounds
MaxTime == 2
TicksPerMinute == 2
MaxOrders == 1
MaxLoads == 1
MaxCount == 4
MaxDays == 1

\* ------------------------------------------------------------- value sets
Users == {"u1", "u2"}
NoUser == "null"
Status == {"active", "completed", "expired"}
\* the quantities other clients ask for
OrderStatus == {"pending", "confirmed", "rejected", "completed"}
Quantities == {1, 2}
MaxMinute == (MaxTime \div TicksPerMinute) + 1
Minutes == 0..MaxMinute
NaN == "NaN"

\* Strings the user can type are sequences of characters; "" is << >>.
Empty == << >>
Str1 == <<"1">>
Str2 == <<"2">>
Str1e1 == <<"1", "e", "1">>
Str0 == <<"0">>
Str5 == <<"5">>
ItemNames == {Empty, <<"r">>}
CategoryInputs == {Empty, <<"g">>}
UnitInputs == {Empty, <<"k">>}
PriceInputs == {Empty, Str0, Str5}
MinVendorInputs == {Empty, Str1, Str2, Str1e1}
\* a datetime-local value: "" or the wall-clock minute it names
DeadlineInputs == {Empty} \cup {<<m>> : m \in Minutes}

\* --------------------------------------------------------------- variables
VARIABLES
    now,        \* the clock, in ticks
    store,      \* collection groupOrders: sequence of documents, id = index
    user,       \* useAuth().user of the mounted component: a uid or NoUser
    formData,   \* useState<GroupOrderFormData>
    dialogOpen, \* useState(false)
    groupOrders,\* useState<GroupOrder[]>: the local list
    loading,    \* useState(true)
    renderedAt, \* the instant of the component's last render
    toast,      \* the last toast shown
    uiCreate,   \* handleCreateGroupOrder awaiting createGroupOrder
    loads,      \* getActiveGroupOrders responses not yet delivered
    calls,      \* joinGroupOrder calls: slot -> call record
    helper,     \* the last call of a presentation helper: name, arguments, result
    orderStore, \* collection orders: sequence of documents, id = index
    sessions    \* the mounted OrderManager components of one supplier

vars == <<now, store, user, formData, dialogOpen, groupOrders, loading,
          renderedAt, toast, uiCreate, loads, calls, helper, orderStore, sessions>>

\* ------------------------------------------------------------- conversions
IsDigit(c) == c \in {"0", "1", "2", "3", "4", "5", "6", "7", "8", "9"}

DigitVal(c) ==
    CASE c = "0" -> 0 [] c = "1" -> 1 [] c = "2" -> 2 [] c = "3" -> 3
      [] c = "4" -> 4 [] c = "5" -> 5 [] c = "6" -> 6 [] c = "7" -> 7
      [] c = "8" -> 8 [] c = "9" -> 9

RECURSIVE DigitsValue(_)
DigitsValue(s) ==
    IF s = << >> THEN 0
    ELSE DigitsValue(SubSeq(s, 1, Len(s) - 1)) * 10 + DigitVal(s[Len(s)])

\* the longest prefix of s made of decimal digits
RECURSIVE LeadingDigits(_)
LeadingDigits(s) ==
    IF s = << >> \/ ~IsDigit(Head(s)) THEN << >>
    ELSE <<Head(s)>> \o LeadingDigits(Tail(s))

RECURSIVE Pow10(_)
Pow10(n) == IF n = 0 THEN 1 ELSE 10 * Pow10(n - 1)

\* parseInt(string): the leading decimal digits, NaN when there are none
ParseInt(s) ==
    IF LeadingDigits(s) = << >> THEN NaN ELSE DigitsValue(LeadingDigits(s))

\* parseFloat(string) and the value of <input type="number">, on strings
\* of the shape digits or digits "e" digits
ParseFloat(s) ==
    LET m == LeadingDigits(s)
        rest == SubSeq(s, Len(m) + 1, Len(s))
    IN  IF m = << >> THEN NaN
        ELSE IF rest # << >> /\ Head(rest) = "e" /\ LeadingDigits(Tail(rest)) # << >>
             THEN DigitsValue(m) * Pow10(DigitsValue(LeadingDigits(Tail(rest))))
             ELSE DigitsValue(m)

\* new Date("YYYY-MM-DDTHH:mm"): the instant at which that minute starts
DateOf(d) == d[1] * TicksPerMinute

\* new Date().toISOString().slice(0, 16): the minute the instant lies in
IsoMinute(t) == t \div TicksPerMinute

\* ------------------------------------------------------------------ forms
EmptyForm ==
    [itemName |-> Empty, category |-> Empty, targetPrice |-> Empty,
     unit |-> Empty, minVendors |-> Empty, deadline |-> Empty]

\* an ordinary filled-in form with deadline minute m
Filled(m) ==
    [itemName |-> <<"r">>, category |-> <<"g">>, targetPrice |-> Str5,
     unit |-> <<"k">>, minVendors |-> Str2, deadline |-> <<m>>]

\* what the user is taken to type: an ordinary form with any deadline, or
\* one that departs from an ordinary form in one field
FormInputs ==
    {Filled(m) : m \in Minutes}
      \cup {[Filled(MaxMinute) EXCEPT !.itemName = v] : v \in ItemNames}
      \cup {[Filled(MaxMinute) EXCEPT !.category = v] : v \in CategoryInputs}
      \cup {[Filled(MaxMinute) EXCEPT !.targetPrice = v] : v \in PriceInputs}
      \cup {[Filled(MaxMinute) EXCEPT !.unit = v] : v \in UnitInputs}
      \cup {[Filled(MaxMinute) EXCEPT !.minVendors = v] : v \in MinVendorInputs}
      \cup {[Filled(MaxMinute) EXCEPT !.deadline = v] : v \in DeadlineInputs}

\* the deadline input's min attribute, computed when the component renders
MinAttr(t) == IsoMinute(t)

\* the browser's constraint validation of the form, run before onSubmit:
\* the four <Input required> fields, min="2" and min={...} (the two
\* <Select>s carry no constraint)
FormValid(fd, t) ==
    /\ fd.itemName # Empty
    /\ fd.targetPrice # Empty
    /\ fd.minVendors # Empty
    /\ ParseFloat(fd.minVendors) >= 2
    /\ fd.deadline # Empty
    /\ fd.deadline[1] >= MinAttr(t)

\* ---------------------------------------------------------------- service
\* GroupOrderData with the creator enrolled at quantity 0
GroupOrderDataZeroQuantity(uid, fd, t) ==
    [createdBy |-> uid,
     itemName |-> fd.itemName,
     category |-> fd.category,
     targetPrice |-> ParseFloat(fd.targetPrice),
     unit |-> fd.unit,
     minVendors |-> ParseInt(fd.minVendors),
     joinedVendors |-> <<[userId |-> uid, quantity |-> 0, joinedAt |-> t]>>,
     deadline |-> DateOf(fd.deadline),
     status |-> "active"]

\* groupOrderData of handleCreateGroupOrder, built at instant t by user uid
GroupOrderData(uid, fd, t) ==
    [createdBy |-> uid,
     itemName |-> fd.itemName,
     category |-> fd.category,
     targetPrice |-> ParseFloat(fd.targetPrice),
     unit |-> fd.unit,
     minVendors |-> ParseInt(fd.minVendors),
     joinedVendors |-> <<[userId |-> uid, quantity |-> 1, joinedAt |-> t]>>,
     deadline |-> DateOf(fd.deadline),
     status |-> "active"]

\* the document createGroupOrder hands to addDoc: the caller's fields and
\* createdAt: serverTimestamp().  origin does not exist in the program: it
\* records which caller made the document.
NewDoc(groupOrder, t, origin) ==
    [createdBy |-> groupOrder.createdBy,
     itemName |-> groupOrder.itemName,
     category |-> groupOrder.category,
     targetPrice |-> groupOrder.targetPrice,
     unit |-> groupOrder.unit,
     minVendors |-> groupOrder.minVendors,
     joinedVendors |-> groupOrder.joinedVendors,
     deadline |-> groupOrder.deadline,
     status |-> groupOrder.status,
     createdAt |-> t,
     origin |-> origin]

\* addDoc(collection(db, 'groupOrders'), ...): the new document gets the
\* next id
AddDoc(col, d) == Append(col, d)

\* docSnap.exists()
Exists(col, id) == id \in 1..Len(col)

HasVendor(vendors, userId) == \E i \in 1..Len(vendors) : vendors[i].userId = userId

\* UpdatedVendors adding the quantity to the one already there
UpdatedVendorsAdditive(vendors, userId, quantity, t) ==
    IF HasVendor(vendors, userId)
    THEN [i \in 1..Len(vendors) |->
            IF vendors[i].userId = userId
            THEN [vendors[i] EXCEPT !.quantity = @ + quantity]
            ELSE vendors[i]]
    ELSE Append(vendors, [userId |-> userId, quantity |-> quantity, joinedAt |-> t])

\* UpdatedVendors appending an entry also for a user already there
UpdatedVendorsAppending(vendors, userId, quantity, t) ==
    Append(vendors, [userId |-> userId, quantity |-> quantity, joinedAt |-> t])

\* UpdatedVendors stamping the entry of a user already there with t
UpdatedVendorsRestamping(vendors, userId, quantity, t) ==
    IF HasVendor(vendors, userId)
    THEN [i \in 1..Len(vendors) |->
            IF vendors[i].userId = userId
            THEN [vendors[i] EXCEPT !.quantity = quantity, !.joinedAt = t]
            ELSE vendors[i]]
    ELSE Append(vendors, [userId |-> userId, quantity |-> quantity, joinedAt |-> t])

\* UpdatedVendors putting a new entry before the ones read
UpdatedVendorsPrepending(vendors, userId, quantity, t) ==
    IF HasVendor(vendors, userId)
    THEN [i \in 1..Len(vendors) |->
            IF vendors[i].userId = userId
            THEN [vendors[i] EXCEPT !.quantity = quantity]
            ELSE vendors[i]]
    ELSE <<[userId |-> userId, quantity |-> quantity, joinedAt |-> t]>> \o vendors

\* UpdatedVendors moving the entry of a user already there to the end
UpdatedVendorsMovingToEnd(vendors, userId, quantity, t) ==
    IF HasVendor(vendors, userId)
    THEN LET i == CHOOSE k \in 1..Len(vendors) : vendors[k].userId = userId
         IN  Append(SelectSeq(vendors, LAMBDA v : v.userId # userId),
                    [vendors[i] EXCEPT !.quantity = quantity])
    ELSE Append(vendors, [userId |-> userId, quantity |-> quantity, joinedAt |-> t])

\* UpdatedVendors keeping, of the entries read, the first one only
UpdatedVendorsRestarting(vendors, userId, quantity, t) ==
    IF HasVendor(vendors, userId)
    THEN [i \in 1..Len(vendors) |->
            IF vendors[i].userId = userId
            THEN [vendors[i] EXCEPT !.quantity = quantity]
            ELSE vendors[i]]
    ELSE Append(SubSeq(vendors, 1, 1),
                [userId |-> userId, quantity |-> quantity, joinedAt |-> t])

\* UpdatedVendors dropping the entries read when the user is new
UpdatedVendorsAlone(vendors, userId, quantity, t) ==
    IF HasVendor(vendors, userId)
    THEN [i \in 1..Len(vendors) |->
            IF vendors[i].userId = userId
            THEN [vendors[i] EXCEPT !.quantity = quantity]
            ELSE vendors[i]]
    ELSE <<[userId |-> userId, quantity |-> quantity, joinedAt |-> t]>>

\* updatedVendors of joinGroupOrder, computed at instant t from the list read
UpdatedVendors(vendors, userId, quantity, t) ==
    IF HasVendor(vendors, userId)
    THEN [i \in 1..Len(vendors) |->
            IF vendors[i].userId = userId
            THEN [vendors[i] EXCEPT !.quantity = quantity]
            ELSE vendors[i]]
    ELSE Append(vendors, [userId |-> userId, quantity |-> quantity, joinedAt |-> t])

\* UpdateDoc keeping the stored entries of users the new list lacks
UpdateDocMerging(col, id, vendors) ==
    [col EXCEPT ![id].joinedVendors =
        vendors \o SelectSeq(@, LAMBDA v : ~HasVendor(vendors, v.userId))]

\* UpdateDoc writing status: 'active' along with the list
UpdateDocReactivating(col, id, vendors) ==
    [col EXCEPT ![id].joinedVendors = vendors, ![id].status = "active"]

\* UpdateDoc marking the order completed once the list has minVendors entries
UpdateDocCompleting(col, id, vendors) ==
    [col EXCEPT ![id].joinedVendors = vendors,
                ![id].status = IF Len(vendors) >= col[id].minVendors
                               THEN "completed" ELSE @]

\* UpdateDoc writing the list to every document of the collection
UpdateDocEverywhere(col, id, vendors) ==
    [g \in 1..Len(col) |-> [col[g] EXCEPT !.joinedVendors = vendors]]

\* updateDoc(docRef, {joinedVendors: updatedVendors})
UpdateDoc(col, id, vendors) == [col EXCEPT ![id].joinedVendors = vendors]

\* orderBy('deadline'): ids sorted by ascending deadline, ties by id
RECURSIVE InsertByDeadline(_, _, _)
InsertByDeadline(col, ids, id) ==
    IF ids = << >> THEN <<id>>
    ELSE IF col[id].deadline < col[Head(ids)].deadline
         THEN <<id>> \o ids
         ELSE <<Head(ids)>> \o InsertByDeadline(col, Tail(ids), id)

\* OrderByDeadline leaving the documents in their stored order
OrderAsStored(col, ids) == ids

RECURSIVE OrderByDeadline(_, _)
OrderByDeadline(col, ids) ==
    IF ids = << >> THEN << >>
    ELSE InsertByDeadline(col, OrderByDeadline(col, SubSeq(ids, 1, Len(ids) - 1)),
                          ids[Len(ids)])

\* where('status', '==', 'active')
WhereActive(col) == SelectSeq([i \in 1..Len(col) |-> i], LAMBDA i : col[i].status = "active")

\* Timestamp.toDate(): the same instant
ToDate(t) == t

\* getActiveGroupOrders: the documents of the query, each with its id
GetActiveGroupOrders(col) ==
    LET ids == OrderByDeadline(col, WhereActive(col))
    IN  [k \in 1..Len(ids) |->
            [id |-> ids[k],
             createdBy |-> col[ids[k]].createdBy,
             itemName |-> col[ids[k]].itemName,
             category |-> col[ids[k]].category,
             targetPrice |-> col[ids[k]].targetPrice,
             unit |-> col[ids[k]].unit,
             minVendors |-> col[ids[k]].minVendors,
             joinedVendors |-> col[ids[k]].joinedVendors,
             status |-> col[ids[k]].status,
             createdAt |-> ToDate(col[ids[k]].createdAt),
             deadline |-> ToDate(col[ids[k]].deadline)]]

\* -------------------------------------------------- presentation helpers
\* getTimeRemaining(deadline) = t('expired'), evaluated at instant t
IsExpired(deadline, t) == deadline - t <= 0

\* isUserJoined(groupOrder): user && joinedVendors.some(...)
IsUserJoined(g, uid) == uid # NoUser /\ HasVendor(g.joinedVendors, uid)

\* milliseconds, as Date.getTime() counts them
MsPerMinute == 1000 * 60
MsPerHour == 1000 * 60 * 60
MsPerDay == 1000 * 60 * 60 * 24

\* t('expired')
Expired == <<"expired">>

\* GetTimeRemaining counting a deadline that is just reached as not expired
GetTimeRemainingStrict(deadline, t) ==
    LET timeLeft == deadline - t
        days == timeLeft \div MsPerDay
        hours == (timeLeft % MsPerDay) \div MsPerHour
        minutes == (timeLeft % MsPerHour) \div MsPerMinute
    IN  IF timeLeft < 0 THEN Expired
        ELSE IF days > 0 THEN <<days, "d", hours, "h">>
        ELSE IF hours > 0 THEN <<hours, "h", minutes, "m">>
        ELSE <<minutes, "m">>

\* GetTimeRemaining showing all the hours left, not those within the day
GetTimeRemainingTotalHours(deadline, t) ==
    LET timeLeft == deadline - t
        days == timeLeft \div MsPerDay
        hours == timeLeft \div MsPerHour
        minutes == (timeLeft % MsPerHour) \div MsPerMinute
    IN  IF timeLeft <= 0 THEN Expired
        ELSE IF days > 0 THEN <<days, "d", hours, "h">>
        ELSE IF hours > 0 THEN <<hours, "h", minutes, "m">>
        ELSE <<minutes, "m">>

\* getTimeRemaining(deadline) called at instant t, both in milliseconds; the
\* template strings `${days}d ${hours}h` ... are kept as their parts
GetTimeRemaining(deadline, t) ==
    LET timeLeft == deadline - t
        days == timeLeft \div MsPerDay
        hours == (timeLeft % MsPerDay) \div MsPerHour
        minutes == (timeLeft % MsPerHour) \div MsPerMinute
    IN  IF timeLeft <= 0 THEN Expired
        ELSE IF days > 0 THEN <<days, "d", hours, "h">>
        ELSE IF hours > 0 THEN <<hours, "h", minutes, "m">>
        ELSE <<minutes, "m">>

\* a number that need not be whole: num / den, den > 0
Ratio(n, d) == [num |-> n, den |-> d]

RatioLeq(a, b) == a.num * b.den <= b.num * a.den

\* Math.min(a, b)
MathMin(a, b) == IF RatioLeq(a, b) THEN a ELSE b

\* GetProgressPercentage without the cap
GetProgressPercentageUncapped(joinedVendors, minVendors) ==
    Ratio(joinedVendors * 100, minVendors)

\* getProgressPercentage(joinedVendors, minVendors), minVendors > 0
GetProgressPercentage(joinedVendors, minVendors) ==
    MathMin(Ratio(joinedVendors * 100, minVendors), Ratio(100, 1))

\* joinedVendors.reduce((total, vendor) => total + vendor.quantity, total)
RECURSIVE ReduceQuantity(_, _)
ReduceQuantity(vendors, total) ==
    IF vendors = << >> THEN total
    ELSE ReduceQuantity(Tail(vendors), total + Head(vendors).quantity)

\* GetTotalQuantity counting the entries
GetTotalQuantityCounting(g) == Len(g.joinedVendors)

\* getTotalQuantity(groupOrder)
GetTotalQuantity(g) == ReduceQuantity(g.joinedVendors, 0)

\* ------------------------------------------------------------------ state
DirectSlots == {"d1", "d2"}
Slots == {"ui"} \cup DirectSlots

\* no helper has been called
NoHelper == [fn |-> "none", pc |-> "none", args |-> << >>, out |-> << >>]

\* a helper has been called with args and has not returned
HelperCall(fn, args) == [fn |-> fn, pc |-> "called", args |-> args, out |-> << >>]

\* it returns out
HelperReturn(h, out) == [h EXCEPT !.pc = "returned", !.out = out]

IdleCall ==
    [pc |-> "idle", gid |-> 0, uid |-> NoUser, qty |-> 0, existingVendor |-> FALSE,
     upd |-> << >>, out |-> "none", prev |-> "none"]

\* a call of joinGroupOrder(gid, uid, qty) entered from the slot's last
\* state c; prev tells whether the call before it wrote to the same order
\* for the same user, and whether with the same quantity or another
StartCall(c, gid, uid, qty) ==
    [pc |-> "getDoc", gid |-> gid, uid |-> uid, qty |-> qty,
     existingVendor |-> FALSE, upd |-> << >>, out |-> "none",
     prev |-> IF c.out = "wrote" /\ c.gid = gid /\ c.uid = uid
              THEN (IF c.qty = qty THEN "same" ELSE "other")
              ELSE "none"]

\* what a getActiveGroupOrders call can come back with
LoadResults(col) ==
    {[ok |-> TRUE, orders |-> GetActiveGroupOrders(col)],
     [ok |-> FALSE, orders |-> << >>]}

RemoveAt(q, i) == SubSeq(q, 1, i - 1) \o SubSeq(q, i + 1, Len(q))

\* what another client passes to createGroupOrder at instant t
DirectOrder(t, m, st) ==
    [createdBy |-> "u3", itemName |-> <<"r">>, category |-> <<"g">>,
     targetPrice |-> 5, unit |-> <<"k">>, minVendors |-> 2,
     joinedVendors |-> <<[userId |-> "u3", quantity |-> 1, joinedAt |-> t]>>,
     deadline |-> DateOf(<<m>>), status |-> st]

DirectOrders(t) == {DirectOrder(t, m, st) : m \in Minutes, st \in Status}

\* the same, of active orders that end with the last minute
ActiveOrders(t) == {DirectOrder(t, MaxMinute, "active")}

\* active orders whose deadline lies after t
OpenOrders(t) ==
    {DirectOrder(t, m, "active") : m \in {k \in Minutes : DateOf(<<k>>) > t}}

\* the same, asking for three vendors
LargerOrders(t) == {[g EXCEPT !.minVendors = 3] : g \in ActiveOrders(t)}

\* the same, of orders of any status
StatusOrders(t) == {DirectOrder(t, MaxMinute, st) : st \in Status}

\* two OrderManager components of the same supplier: two tabs or devices
Sessions == {"s1", "s2"}

\* an OrderManager as mounted: no order listed, its first loadOrders under
\* way, no updateOrderStatus under way
MountedSession ==
    [orders |-> << >>, loading |-> TRUE, load |-> "getDocs", toast |-> "none",
     pc |-> "idle", orderId |-> 0, status |-> "none"]

\* the component as mounted, the store empty, no call under way
InitProgram ==
    /\ now \in 0..MaxTime
    /\ store = << >>
    /\ user \in {"u1", NoUser}
    /\ formData = EmptyForm
    /\ dialogOpen = FALSE
    /\ groupOrders = << >>
    /\ loading = TRUE
    /\ renderedAt = now
    /\ toast = "none"
    /\ uiCreate = [pc |-> "idle", data |-> << >>]
    /\ loads \in {<<r>> : r \in LoadResults(<< >>)}
    /\ calls = [s \in Slots |-> IdleCall]
    /\ orderStore = << >>
    /\ sessions = [s \in Sessions |-> MountedSession]

Init == InitProgram /\ helper = NoHelper

\* ---------------------------------------------------------------- actions
Tick ==
    /\ now < MaxTime
    /\ now' = now + 1
    /\ UNCHANGED <<orderStore, sessions, helper, store, user, formData, dialogOpen, groupOrders, loading,
                   renderedAt, toast, uiCreate, loads, calls>>

\* the interval fires and loadGroupOrders calls getActiveGroupOrders, while
\* fewer than cap loads are in flight
PollWithin(cap) ==
    /\ Len(loads) < cap
    /\ loads' \in {Append(loads, r) : r \in LoadResults(store)}
    /\ UNCHANGED <<orderStore, sessions, helper, now, store, user, formData, dialogOpen, groupOrders, loading,
                   renderedAt, toast, uiCreate, calls>>

\* Poll with a query that marks the orders past their deadline as expired
PollExpiring ==
    /\ Len(loads) < MaxLoads
    /\ loads' \in {Append(loads, r) : r \in LoadResults(store)}
    /\ store' = [g \in 1..Len(store) |->
                    IF IsExpired(store[g].deadline, now)
                    THEN [store[g] EXCEPT !.status = "expired"]
                    ELSE store[g]]
    /\ UNCHANGED <<orderStore, sessions, helper, now, user, formData, dialogOpen, groupOrders, loading,
                   renderedAt, toast, uiCreate, calls>>

\* setInterval(loadGroupOrders, 30000) fires
Poll == PollWithin(MaxLoads)

\* where the loads themselves are looked at, one more can be in flight
LoadCapacity == MaxLoads + 1

PollAgain == PollWithin(LoadCapacity)

\* LoadDone without setGroupOrders(orders)
LoadDoneDiscarding ==
    \E i \in 1..Len(loads) :
        /\ groupOrders' = groupOrders
        /\ toast' = IF loads[i].ok THEN toast ELSE "err_load"
        /\ loading' = FALSE
        /\ loads' = RemoveAt(loads, i)
        /\ renderedAt' = now
        /\ UNCHANGED <<orderStore, sessions, helper, now, store, user, formData, dialogOpen, uiCreate, calls>>

\* loadGroupOrders resumes after await getActiveGroupOrders()
LoadDone ==
    \E i \in 1..Len(loads) :
        /\ IF loads[i].ok
           THEN groupOrders' = loads[i].orders /\ toast' = toast
           ELSE groupOrders' = groupOrders /\ toast' = "err_load"
        /\ loading' = FALSE
        /\ loads' = RemoveAt(loads, i)
        /\ renderedAt' = now
        /\ UNCHANGED <<orderStore, sessions, helper, now, store, user, formData, dialogOpen, uiCreate, calls>>

\* the DialogTrigger button (onClick resetForm), or the button of the empty
\* list (setDialogOpen(true))
OpenDialog ==
    /\ ~loading
    /\ ~dialogOpen
    /\ dialogOpen' = TRUE
    /\ \/ formData' = EmptyForm
       \/ groupOrders = << >> /\ formData' = formData
    /\ renderedAt' = now
    /\ UNCHANGED <<orderStore, sessions, helper, now, store, user, groupOrders, loading, toast, uiCreate,
                   loads, calls>>

\* Cancel, or the dialog's onOpenChange
CloseDialog ==
    /\ dialogOpen
    /\ dialogOpen' = FALSE
    /\ renderedAt' = now
    /\ UNCHANGED <<orderStore, sessions, helper, now, store, user, formData, groupOrders, loading, toast,
                   uiCreate, loads, calls>>

\* the onChange handlers of the form, the user's typing taken as one step
\* that leaves one of inputs in the form
ChangeFormTo(inputs) ==
    /\ ~loading
    /\ dialogOpen
    /\ \E fd \in inputs : formData' = fd
    /\ renderedAt' = now
    /\ UNCHANGED <<orderStore, sessions, helper, now, store, user, dialogOpen, groupOrders, loading, toast,
                   uiCreate, loads, calls>>

ChangeForm == ChangeFormTo(FormInputs)

\* the user fills in an ordinary form
FillForm == ChangeFormTo({Filled(m) : m \in Minutes})

\* the same, with the last minute as the deadline
FillFormLate == ChangeFormTo({Filled(MaxMinute)})

\* FieldsMissing without the test of the category
FieldsMissingButCategory(u, fd) ==
    \/ u = NoUser
    \/ fd.itemName = Empty
    \/ fd.targetPrice = Empty
    \/ fd.unit = Empty
    \/ fd.minVendors = Empty
    \/ fd.deadline = Empty

\* the guard of handleCreateGroupOrder: !user || !formData.itemName || ...
FieldsMissing(u, fd) ==
    \/ u = NoUser
    \/ fd.itemName = Empty
    \/ fd.category = Empty
    \/ fd.targetPrice = Empty
    \/ fd.unit = Empty
    \/ fd.minVendors = Empty
    \/ fd.deadline = Empty

\* the form is submitted: handleCreateGroupOrder up to its await
HandleCreateGroupOrder ==
    /\ ~loading
    /\ dialogOpen
    /\ FormValid(formData, renderedAt)
    /\ uiCreate.pc = "idle"
    /\ IF FieldsMissing(user, formData)
       THEN /\ toast' = "err_fill"
            /\ renderedAt' = now
            /\ UNCHANGED uiCreate
       ELSE /\ uiCreate' = [pc |-> "addDoc",
                            data |-> <<GroupOrderData(user, formData, now)>>]
            /\ UNCHANGED <<toast, renderedAt>>
    /\ UNCHANGED <<orderStore, sessions, helper, now, store, user, formData, dialogOpen, groupOrders, loading,
                   loads, calls>>

\* the store answers the addDoc of createGroupOrder and
\* handleCreateGroupOrder resumes: toast, close, reset, reload; or catch
CreateGroupOrderDone ==
    /\ uiCreate.pc = "addDoc"
    /\ \/ /\ Len(store) < MaxOrders
          /\ Len(loads) < MaxLoads
          /\ store' = AddDoc(store, NewDoc(uiCreate.data[1], now, "ui"))
          /\ toast' = "ok_create"
          /\ dialogOpen' = FALSE
          /\ formData' = EmptyForm
          /\ loads' \in {Append(loads, r) : r \in LoadResults(store')}
       \/ /\ toast' = "err_create"
          /\ UNCHANGED <<store, dialogOpen, formData, loads>>
    /\ uiCreate' = [pc |-> "idle", data |-> << >>]
    /\ renderedAt' = now
    /\ UNCHANGED <<orderStore, sessions, helper, now, user, groupOrders, loading, calls>>

\* createGroupOrder called by another client with one of orders, while the
\* store holds fewer than cap documents. A call whose addDoc fails throws
\* to that client and leaves every variable as it was: a stuttering step.
CreateGroupOrder(orders, cap) ==
    /\ Len(store) < cap
    /\ \E g \in orders : store' = AddDoc(store, NewDoc(g, now, "direct"))
    /\ UNCHANGED <<orderStore, sessions, helper, now, user, formData, dialogOpen, groupOrders, loading,
                   renderedAt, toast, uiCreate, loads, calls>>

\* where orders are only listed the store holds two documents more
ListCapacity == MaxOrders + 2

DirectCreateGroupOrder == CreateGroupOrder(DirectOrders(now), ListCapacity)

DirectCreateActive == CreateGroupOrder(ActiveOrders(now), MaxOrders)

DirectCreateAnyStatus == CreateGroupOrder(StatusOrders(now), MaxOrders)

DirectCreateLarger == CreateGroupOrder(LargerOrders(now), MaxOrders)

DirectCreateOpen == CreateGroupOrder(OpenOrders(now), MaxOrders)

\* the join button of a card: handleJoinGroupOrder(groupOrder.id) up to its
\* await.  The button is there when the card, as last rendered, shows the
\* user as not joined and the order as not expired.
HandleJoinGroupOrder ==
    /\ ~loading
    /\ ~dialogOpen
    /\ calls["ui"].pc \in {"idle", "done"}
    /\ \E k \in 1..Len(groupOrders) :
          /\ ~IsUserJoined(groupOrders[k], user)
          /\ ~IsExpired(groupOrders[k].deadline, renderedAt)
          /\ IF user = NoUser
             THEN UNCHANGED calls
             ELSE calls' = [calls EXCEPT !["ui"] =
                              StartCall(calls["ui"], groupOrders[k].id, user, 1)]
    /\ UNCHANGED <<orderStore, sessions, helper, now, store, user, formData, dialogOpen, groupOrders, loading,
                   renderedAt, toast, uiCreate, loads>>

\* joinGroupOrder(gid, u, q) called from another client: one of slots, for
\* a user among users, q among qtys
JoinGroupOrderFrom(slots, users, qtys) ==
    \E s \in slots, u \in users, gid \in 1..MaxOrders, q \in qtys :
        /\ calls[s].pc \in {"idle", "done"}
        /\ calls' = [calls EXCEPT ![s] = StartCall(calls[s], gid, u, q)]
        /\ UNCHANGED <<orderStore, sessions, helper, now, store, user, formData, dialogOpen, groupOrders,
                       loading, renderedAt, toast, uiCreate, loads>>

JoinGroupOrder(qtys) == JoinGroupOrderFrom(DirectSlots, Users, qtys)

DirectJoinGroupOrder == JoinGroupOrder(Quantities)

DirectJoinAnyQuantity == JoinGroupOrder(Quantities \cup {0})

\* one other client, whose calls follow one another
SoloSlots == {"d1"}

SoloJoinGroupOrder == JoinGroupOrderFrom(SoloSlots, Users, Quantities)

SoloJoinAnyQuantity == JoinGroupOrderFrom(SoloSlots, Users, Quantities \cup {0})

\* that client calling for the users other than the component's
OthersJoinGroupOrder == JoinGroupOrderFrom(SoloSlots, Users \ {user}, Quantities)

\* another client joining for the other users through the join button's
\* default quantity
OthersJoinOnce == JoinGroupOrderFrom(SoloSlots, Users \ {user}, {1})

\* JoinReturns with a joinGroupOrder that swallows the store's failures
JoinReturnsSwallowing(s, ok, col) ==
    IF s = "ui"
    THEN /\ renderedAt' = now
         /\ Len(loads) < MaxLoads
         /\ toast' = "ok_join"
         /\ loads' \in {Append(loads, r) : r \in LoadResults(col)}
    ELSE UNCHANGED <<renderedAt, toast, loads>>

\* what handleJoinGroupOrder does when joinGroupOrder has returned (ok) or
\* thrown; a direct caller has no state of its own
JoinReturns(s, ok, col) ==
    IF s = "ui"
    THEN /\ renderedAt' = now
         /\ IF ok
            THEN /\ Len(loads) < MaxLoads
                 /\ toast' = "ok_join"
                 /\ loads' \in {Append(loads, r) : r \in LoadResults(col)}
            ELSE /\ toast' = "err_join"
                 /\ loads' = loads
    ELSE UNCHANGED <<renderedAt, toast, loads>>

\* Finish with a call that starts over when the store has failed
FinishRetrying(c, out) ==
    IF out = "wrote"
    THEN [c EXCEPT !.pc = "done", !.out = out, !.upd = << >>,
                   !.existingVendor = FALSE]
    ELSE IF out = "threw"
         THEN [c EXCEPT !.pc = "getDoc", !.upd = << >>, !.existingVendor = FALSE]
         ELSE [IdleCall EXCEPT !.pc = "done", !.out = out]

\* the call is over; what it wrote stays on record
Finish(c, out) ==
    IF out = "wrote"
    THEN [c EXCEPT !.pc = "done", !.out = out, !.upd = << >>,
                   !.existingVendor = FALSE]
    ELSE [IdleCall EXCEPT !.pc = "done", !.out = out]

\* the store answers getDoc and joinGroupOrder runs up to updateDoc
JoinGetDoc ==
    \E s \in Slots :
        /\ calls[s].pc = "getDoc"
        /\ \/ /\ Exists(store, calls[s].gid)
              /\ calls' = [calls EXCEPT ![s] =
                    [pc |-> "updateDoc", gid |-> @.gid, uid |-> @.uid,
                     qty |-> @.qty, out |-> @.out, prev |-> @.prev,
                     existingVendor |-> HasVendor(store[@.gid].joinedVendors, @.uid),
                     upd |-> UpdatedVendors(store[@.gid].joinedVendors,
                                            @.uid, @.qty, now)]]
              /\ UNCHANGED <<renderedAt, toast, loads>>
           \/ /\ ~Exists(store, calls[s].gid)
              /\ calls' = [calls EXCEPT ![s] = Finish(@, "noop")]
              /\ JoinReturns(s, TRUE, store)
           \/ /\ calls' = [calls EXCEPT ![s] = Finish(@, "threw")]
              /\ JoinReturns(s, FALSE, store)
        /\ UNCHANGED <<orderStore, sessions, helper, now, store, user, formData, dialogOpen, groupOrders,
                       loading, uiCreate>>

\* the store answers updateDoc and joinGroupOrder returns
JoinUpdateDoc ==
    \E s \in Slots :
        /\ calls[s].pc = "updateDoc"
        /\ \/ /\ store' = UpdateDoc(store, calls[s].gid, calls[s].upd)
              /\ calls' = [calls EXCEPT ![s] = Finish(@, "wrote")]
              /\ JoinReturns(s, TRUE, store')
           \/ /\ store' = store
              /\ calls' = [calls EXCEPT ![s] = Finish(@, "threw")]
              /\ JoinReturns(s, FALSE, store)
        /\ UNCHANGED <<orderStore, sessions, helper, now, user, formData, dialogOpen, groupOrders, loading,
                       uiCreate>>

\* ------------------------------------------------------- direct orders
\* createOrder called by a retailer's client with an order of one of
\* statuses: addDoc with createdAt and updatedAt of the server
CreateOrder(statuses) ==
    /\ Len(orderStore) < MaxOrders
    /\ \E st \in statuses :
          orderStore' = Append(orderStore,
                               [status |-> st, createdAt |-> now, updatedAt |-> now])
    /\ UNCHANGED <<sessions, helper, now, store, user, formData, dialogOpen,
                   groupOrders, loading, renderedAt, toast, uiCreate, loads, calls>>

PlaceOrder == CreateOrder({"pending"})

\* getSupplierOrders: the supplier's orders, newest first, with their ids
GetSupplierOrders(col) ==
    [k \in 1..Len(col) |->
        [id |-> Len(col) + 1 - k, status |-> col[Len(col) + 1 - k].status]]

\* the store answers the getDocs of a session's loadOrders: setOrders, or
\* the error toast; setLoading(false)
LoadOrdersDone ==
    \E s \in Sessions :
        /\ sessions[s].load = "getDocs"
        /\ \/ sessions' = [sessions EXCEPT ![s].orders = GetSupplierOrders(orderStore),
                                            ![s].load = "none",
                                            ![s].loading = FALSE]
           \/ sessions' = [sessions EXCEPT ![s].toast = "err_load",
                                            ![s].load = "none",
                                            ![s].loading = FALSE]
        /\ UNCHANGED <<orderStore, helper, now, store, user, formData, dialogOpen,
                       groupOrders, loading, renderedAt, toast, uiCreate, loads, calls>>

\* the buttons of an order's card for a supplier: confirm and reject on an
\* order listed as pending, mark completed on one listed as confirmed
StatusButtons(order) ==
    IF order.status = "pending" THEN {"confirmed", "rejected"}
    ELSE IF order.status = "confirmed" THEN {"completed"}
    ELSE {}

\* a button is clicked: handleStatusUpdate(order.id, status) up to its await
HandleStatusUpdate ==
    \E s \in Sessions :
        /\ ~sessions[s].loading
        /\ sessions[s].pc = "idle"
        /\ \E k \in 1..Len(sessions[s].orders) :
              \E st \in StatusButtons(sessions[s].orders[k]) :
                  sessions' = [sessions EXCEPT ![s].pc = "updateDoc",
                                               ![s].orderId = sessions[s].orders[k].id,
                                               ![s].status = st]
        /\ UNCHANGED <<orderStore, helper, now, store, user, formData, dialogOpen,
                       groupOrders, loading, renderedAt, toast, uiCreate, loads, calls>>

\* updateOrderStatus: updateDoc of status and updatedAt
UpdateOrderStatus(col, orderId, status, t) ==
    [col EXCEPT ![orderId].status = status, ![orderId].updatedAt = t]

\* the store answers the updateDoc of updateOrderStatus and
\* handleStatusUpdate resumes: toast and loadOrders, or the error toast.
\* Of the session's loadOrders calls in flight the last to answer sets the
\* list; load stands for that one.
UpdateOrderStatusDone ==
    \E s \in Sessions :
        /\ sessions[s].pc = "updateDoc"
        /\ \/ /\ orderStore' = UpdateOrderStatus(orderStore, sessions[s].orderId,
                                                   sessions[s].status, now)
              /\ sessions' = [sessions EXCEPT ![s].pc = "idle",
                                               ![s].toast = "ok_update",
                                               ![s].load = "getDocs"]
           \/ /\ orderStore' = orderStore
              /\ sessions' = [sessions EXCEPT ![s].pc = "idle",
                                               ![s].toast = "err_update"]
        /\ UNCHANGED <<helper, now, store, user, formData, dialogOpen,
                       groupOrders, loading, renderedAt, toast, uiCreate, loads, calls>>

\* --------------------------------------------- the helpers, called alone
\* instants, in milliseconds, around the minute, the hour and the day
Instants ==
    {d * MsPerDay + h * MsPerHour + m * MsPerMinute + ms :
        d \in 0..MaxDays, h \in {0, 1, 23}, m \in {0, 1, 59},
        ms \in {0, 1, 30000, 31000, 59999}}

\* membership lists of up to MaxCount entries
VendorLists ==
    UNION {[1..n -> {[userId |-> "u1", quantity |-> q, joinedAt |-> 0] :
                        q \in Quantities \cup {0}}] : n \in 0..MaxCount}

\* the calls of the helpers, with arguments of any kind
HelperCalls ==
    {HelperCall("getTimeRemaining", <<deadline, t>>) :
        deadline \in Instants, t \in Instants}
      \cup {HelperCall("getProgressPercentage", <<joinedVendors, minVendors>>) :
               joinedVendors \in 0..MaxCount, minVendors \in 1..MaxCount}
      \cup {HelperCall("getTotalQuantity", <<[joinedVendors |-> vendors]>>) :
               vendors \in VendorLists}

\* the instant of a clock tick, in milliseconds
TickMs(t) == t * (MsPerMinute \div TicksPerMinute)

\* a card of the list is rendered: one of the helpers is called for it
RenderCard ==
    /\ ~loading
    /\ \E k \in 1..Len(groupOrders) :
          helper' \in
            {HelperCall("getTimeRemaining",
                        <<TickMs(groupOrders[k].deadline), TickMs(now)>>),
             HelperCall("getProgressPercentage",
                        <<Len(groupOrders[k].joinedVendors), groupOrders[k].minVendors>>),
             HelperCall("getTotalQuantity",
                        <<[joinedVendors |-> groupOrders[k].joinedVendors]>>)}
    /\ UNCHANGED <<orderStore, sessions, now, store, user, formData, dialogOpen, groupOrders, loading,
                   renderedAt, toast, uiCreate, loads, calls>>

\* getTimeRemaining(groupOrder.deadline) returns
CallGetTimeRemaining ==
    /\ helper.fn = "getTimeRemaining"
    /\ helper.pc = "called"
    /\ helper' = HelperReturn(helper, GetTimeRemaining(helper.args[1], helper.args[2]))
    /\ UNCHANGED <<orderStore, sessions, now, store, user, formData, dialogOpen, groupOrders, loading,
                   renderedAt, toast, uiCreate, loads, calls>>

\* getProgressPercentage(joinedVendors.length, minVendors) returns
CallGetProgressPercentage ==
    /\ helper.fn = "getProgressPercentage"
    /\ helper.pc = "called"
    /\ helper' = HelperReturn(helper,
                              GetProgressPercentage(helper.args[1], helper.args[2]))
    /\ UNCHANGED <<orderStore, sessions, now, store, user, formData, dialogOpen, groupOrders, loading,
                   renderedAt, toast, uiCreate, loads, calls>>

\* getTotalQuantity(groupOrder) returns
CallGetTotalQuantity ==
    /\ helper.fn = "getTotalQuantity"
    /\ helper.pc = "called"
    /\ helper' = HelperReturn(helper, GetTotalQuantity(helper.args[1]))
    /\ UNCHANGED <<orderStore, sessions, now, store, user, formData, dialogOpen, groupOrders, loading,
                   renderedAt, toast, uiCreate, loads, calls>>

\* ---------------------------------------------------------- specifications
\* The whole program: the mounted component, the other clients, the clock.
Next ==
    \/ Tick
    \/ Poll
    \/ LoadDone
    \/ OpenDialog
    \/ CloseDialog
    \/ ChangeForm
    \/ HandleCreateGroupOrder
    \/ CreateGroupOrderDone
    \/ DirectCreateGroupOrder
    \/ HandleJoinGroupOrder
    \/ DirectJoinAnyQuantity
    \/ JoinGetDoc
    \/ JoinUpdateDoc
    \/ RenderCard
    \/ CallGetTimeRemaining
    \/ CallGetProgressPercentage
    \/ CallGetTotalQuantity
    \/ PlaceOrder
    \/ LoadOrdersDone
    \/ HandleStatusUpdate
    \/ UpdateOrderStatusDone

Spec == Init /\ [][Next]_vars

\* The parts of it that are checked.  Each takes some of the actions of
\* Next, so each of its behaviours is a behaviour of Spec.

\* the mounted component creating group orders
NextCreate ==
    \/ LoadDone
    \/ OpenDialog
    \/ CloseDialog
    \/ ChangeForm
    \/ HandleCreateGroupOrder
    \/ CreateGroupOrderDone

SpecCreate == Init /\ [][NextCreate]_vars

\* other clients creating active group orders and joining them
InitJoin == Init /\ now = 0 /\ user = "u1" /\ loads[1].ok

NextJoin ==
    \/ DirectCreateActive
    \/ DirectJoinGroupOrder
    \/ JoinGetDoc
    \/ JoinUpdateDoc

SpecJoin == InitJoin /\ [][NextJoin]_vars

\* other clients creating group orders of any status, the component polling
NextList ==
    \/ Poll
    \/ LoadDone
    \/ DirectCreateGroupOrder

InitList == Init /\ now = 0 /\ user = "u1"

SpecList == InitList /\ [][NextList]_vars

\* one other client creating group orders of any status and joining them
NextStatus ==
    \/ DirectCreateAnyStatus
    \/ SoloJoinGroupOrder
    \/ JoinGetDoc
    \/ JoinUpdateDoc

SpecStatus == InitJoin /\ [][NextStatus]_vars

\* the mounted component creating group orders, one other client joining
\* them, the clock running
NextLife ==
    \/ Tick
    \/ LoadDone
    \/ OpenDialog
    \/ FillForm
    \/ HandleCreateGroupOrder
    \/ CreateGroupOrderDone
    \/ OthersJoinGroupOrder
    \/ JoinGetDoc
    \/ JoinUpdateDoc

SpecLife == InitJoin /\ [][NextLife]_vars

\* the mounted component listing, creating and joining group orders, and
\* another client creating them, over a store that may fail each request
NextFail ==
    \/ Poll
    \/ LoadDone
    \/ OpenDialog
    \/ FillForm
    \/ HandleCreateGroupOrder
    \/ CreateGroupOrderDone
    \/ DirectCreateActive
    \/ HandleJoinGroupOrder
    \/ JoinGetDoc
    \/ JoinUpdateDoc

SpecFail == InitList /\ [][NextFail]_vars

\* one other client creating active group orders and joining them, one
\* call after the other, the clock running
NextSeq ==
    \/ Tick
    \/ DirectCreateLarger
    \/ SoloJoinGroupOrder
    \/ JoinGetDoc
    \/ JoinUpdateDoc

SpecSeq == InitJoin /\ [][NextSeq]_vars

\* one other client creating active group orders and joining them with
\* quantities that may be 0
NextAnyQuantity ==
    \/ DirectCreateActive
    \/ SoloJoinAnyQuantity
    \/ JoinGetDoc
    \/ JoinUpdateDoc

SpecAnyQuantity == InitJoin /\ [][NextAnyQuantity]_vars

\* the mounted component polling while one other client creates active
\* group orders and joins them for the other users.  The interval timer
\* keeps firing, the store answers every request, and time and again a
\* getActiveGroupOrders call succeeds.
PollSucceeds == Poll /\ loads'[Len(loads')].ok

NextPoll ==
    \/ Poll
    \/ LoadDone
    \/ DirectCreateActive
    \/ OthersJoinOnce
    \/ JoinGetDoc
    \/ JoinUpdateDoc

SpecPoll ==
    /\ InitList
    /\ [][NextPoll]_vars
    /\ WF_vars(LoadDone)
    /\ SF_vars(PollSucceeds)

\* two other clients, one signed in as u1 and one as u2, join the active
\* orders of a third, their calls overlapping, while time passes
RaceJoinGroupOrder ==
    \/ JoinGroupOrderFrom({"d1"}, {"u1"}, {1})
    \/ JoinGroupOrderFrom({"d2"}, {"u2"}, {1})

NextRace ==
    \/ Tick
    \/ DirectCreateActive
    \/ RaceJoinGroupOrder
    \/ JoinGetDoc
    \/ JoinUpdateDoc

SpecRace == InitJoin /\ [][NextRace]_vars

\* a user creates group orders in the component while two other clients
\* join them, for that user too, their calls overlapping
NextOwn ==
    \/ LoadDone
    \/ OpenDialog
    \/ FillFormLate
    \/ HandleCreateGroupOrder
    \/ CreateGroupOrderDone
    \/ RaceJoinGroupOrder
    \/ JoinGetDoc
    \/ JoinUpdateDoc

SpecOwn == InitJoin /\ [][NextOwn]_vars

\* one client joins the first orders of a store that holds more orders, of
\* any status
DirectCreateMore == CreateGroupOrder(StatusOrders(now), ListCapacity)

NextFrame ==
    \/ DirectCreateMore
    \/ SoloJoinGroupOrder
    \/ JoinGetDoc
    \/ JoinUpdateDoc

SpecFrame == InitJoin /\ [][NextFrame]_vars

\* the component lists the open orders of another client and its user joins
\* them by the button of the card, while time passes
NextDeadline ==
    \/ Tick
    \/ Poll
    \/ LoadDone
    \/ DirectCreateOpen
    \/ HandleJoinGroupOrder
    \/ JoinGetDoc
    \/ JoinUpdateDoc

SpecDeadline == InitList /\ [][NextDeadline]_vars

\* the component starts a load while another is in flight, and another
\* client creates active orders: the store only gains listed orders, and a
\* load started later returns every order that an earlier one returns
DirectCreateListed == CreateGroupOrder(ActiveOrders(now), ListCapacity)

NextReload ==
    \/ PollAgain
    \/ LoadDone
    \/ DirectCreateListed

SpecReload == InitList /\ [][NextReload]_vars

\* a retailer places orders with a supplier who has the order page open in
\* two sessions, while time passes
NextOrders ==
    \/ Tick
    \/ PlaceOrder
    \/ LoadOrdersDone
    \/ HandleStatusUpdate
    \/ UpdateOrderStatusDone

SpecOrders == InitJoin /\ [][NextOrders]_vars

\* the presentation helpers called with arguments of any kind
InitHelpers ==
    /\ InitProgram /\ now = 0 /\ user = "u1" /\ loads[1].ok
    /\ helper \in HelperCalls

NextHelpers ==
    \/ CallGetTimeRemaining
    \/ CallGetProgressPercentage
    \/ CallGetTotalQuantity

SpecHelpers == InitHelpers /\ [][NextHelpers]_vars

\* ------------------------------------------------------------------ claims
FormFields == {"itemName", "category", "targetPrice", "unit", "minVendors", "deadline"}

\* the entries of a membership list that belong to user u
EntriesOf(vendors, u) == {i \in 1..Len(vendors) : vendors[i].userId = u}

\* a request to createGroupOrder that meets the preconditions at instant t
RequestValid(g, t) ==
    /\ g.createdBy # NoUser
    /\ g.itemName # Empty /\ g.category # Empty /\ g.unit # Empty
    /\ g.targetPrice > 0
    /\ g.minVendors >= 2
    /\ g.deadline > t

\* C1: a submitted form with a signed-in user and every field filled in is
\* sent to the store, and when the store accepts a request that meets the
\* preconditions exactly one GroupOrder is added: its status is active and
\* its membership is one entry, the creator with quantity 1.
C1_CreatePersistsActiveWithCreator ==
    [][/\ (HandleCreateGroupOrder /\ user # NoUser
            /\ \A f \in FormFields : formData[f] # Empty)
          => uiCreate'.pc = "addDoc"
       /\ (CreateGroupOrderDone /\ toast' = "ok_create"
            /\ RequestValid(uiCreate.data[1], uiCreate.data[1].joinedVendors[1].joinedAt))
          => /\ Len(store') = Len(store) + 1
             /\ SubSeq(store', 1, Len(store)) = store
             /\ store'[Len(store')].status = "active"
             /\ store'[Len(store')].createdBy = user
             /\ Len(store'[Len(store')].joinedVendors) = 1
             /\ store'[Len(store')].joinedVendors[1].userId = user
             /\ store'[Len(store')].joinedVendors[1].quantity = 1]_vars

C1_Witness ==
    /\ toast = "ok_create"
    /\ Len(store) = 1
    /\ store[1].origin = "ui"
    /\ RequestValid(store[1], store[1].joinedVendors[1].joinedAt)
    /\ store[1].status = "active"
    /\ store[1].joinedVendors[1].userId = store[1].createdBy
    /\ store[1].joinedVendors[1].quantity = 1

\* C2: when a joinGroupOrder call that follows a completed call for the
\* same order and user with another quantity writes, the membership holds
\* exactly one entry for that user and its quantity is the second call's.
C2_RejoinReplacesQuantity ==
    [][\A s \in Slots :
          (calls[s].pc = "updateDoc" /\ calls[s].prev = "other"
           /\ calls'[s].out = "wrote")
          => LET vendors == store'[calls[s].gid].joinedVendors
             IN  /\ Cardinality(EntriesOf(vendors, calls[s].uid)) = 1
                 /\ \A i \in EntriesOf(vendors, calls[s].uid) :
                       vendors[i].quantity = calls[s].qty]_vars

C2_Witness ==
    \E s \in Slots :
        /\ calls[s].out = "wrote"
        /\ calls[s].prev = "other"
        /\ \E i \in 1..Len(store[calls[s].gid].joinedVendors) :
              /\ store[calls[s].gid].joinedVendors[i].userId = calls[s].uid
              /\ store[calls[s].gid].joinedVendors[i].quantity = calls[s].qty

\* C3: in every reachable state each user id appears at most once in the
\* membership of each GroupOrder.
C3_UserAtMostOnce ==
    \A g \in 1..Len(store) : \A u \in Users \cup {"u3"} :
        Cardinality(EntriesOf(store[g].joinedVendors, u)) <= 1

\* two overlapping joins of one user: one has written, the other read
\* before that and is about to write
C3_Witness ==
    \E a, b \in Slots :
        /\ a # b
        /\ calls[a].out = "wrote"
        /\ calls[b].pc = "updateDoc"
        /\ calls[a].gid = calls[b].gid
        /\ calls[a].uid = calls[b].uid
        /\ ~calls[b].existingVendor
        /\ HasVendor(store[calls[a].gid].joinedVendors, calls[a].uid)

\* C4: a join that read the membership before another user's join was
\* written writes the list it computed from its own read: it returns
\* without error and the other user's entry is gone from the store.
C4_StaleWriteDropsOtherJoin ==
    [][\A a, b \in Slots :
          (/\ a # b
           /\ calls[a].out = "wrote"
           /\ calls[b].pc = "updateDoc"
           /\ calls[a].gid = calls[b].gid
           /\ calls[a].uid # calls[b].uid
           /\ ~HasVendor(calls[b].upd, calls[a].uid)
           /\ calls'[b].out = "wrote")
          => /\ ~HasVendor(store'[calls[b].gid].joinedVendors, calls[a].uid)
             /\ HasVendor(store'[calls[b].gid].joinedVendors, calls[b].uid)]_vars

\* both calls have returned without error and one user is not a member
C4_Witness ==
    \E a, b \in Slots :
        /\ calls[a].out = "wrote"
        /\ calls[b].out = "wrote"
        /\ calls[a].gid = calls[b].gid
        /\ calls[a].uid # calls[b].uid
        /\ ~HasVendor(store[calls[a].gid].joinedVendors, calls[a].uid)
        /\ HasVendor(store[calls[a].gid].joinedVendors, calls[b].uid)

\* C5: a joinGroupOrder call whose id names no stored GroupOrder ends by
\* signalling an error to its caller, and writes nothing.
C5_MissingOrderSignalsError ==
    [][\A s \in Slots :
          (calls[s].pc = "getDoc" /\ ~Exists(store, calls[s].gid)
           /\ calls'[s].pc = "done")
          => (calls'[s].out = "threw" /\ store' = store)]_vars

\* C6: every stored GroupOrder has minVendors >= 2.
C6_MinVendorsAtLeastTwo ==
    \A g \in 1..Len(store) : store[g].minVendors >= 2

\* C7: every stored GroupOrder has a deadline strictly after the join time
\* of its first member, the instant of its creation.
C7_DeadlineAfterCreation ==
    \A g \in 1..Len(store) :
        store[g].deadline > store[g].joinedVendors[1].joinedAt

\* C8: every stored GroupOrder has targetPrice > 0.
C8_TargetPricePositive ==
    \A g \in 1..Len(store) : store[g].targetPrice > 0

\* C9: a submitted form with no signed-in user or with an empty field shows
\* the error toast and sends nothing: the store, the dialog-open flag and
\* the form contents stay as they are.
C9_IncompleteFormRejected ==
    [][(HandleCreateGroupOrder
        /\ (user = NoUser \/ \E f \in FormFields : formData[f] = Empty))
       => /\ toast' = "err_fill"
          /\ uiCreate' = uiCreate
          /\ store' = store
          /\ dialogOpen' = dialogOpen
          /\ formData' = formData]_vars

C9_Witness ==
    /\ toast = "err_fill"
    /\ dialogOpen
    /\ user # NoUser
    /\ formData.category = Empty
    /\ uiCreate.pc = "idle"
    /\ store = << >>

\* C10: a getActiveGroupOrders call that succeeds returns each stored
\* GroupOrder of status active exactly once, no other, in order of
\* non-decreasing deadline.
C10_ListActiveSortedByDeadline ==
    [][Poll =>
        LET r == loads'[Len(loads')]
        IN  r.ok =>
              /\ \A g \in 1..Len(store) :
                    Cardinality({k \in 1..Len(r.orders) : r.orders[k].id = g})
                      = (IF store[g].status = "active" THEN 1 ELSE 0)
              /\ \A k \in 1..Len(r.orders) :
                    /\ r.orders[k].id \in 1..Len(store)
                    /\ r.orders[k].status = "active"
                    /\ r.orders[k].deadline = store[r.orders[k].id].deadline
              /\ \A k \in 1..(Len(r.orders) - 1) :
                    r.orders[k].deadline <= r.orders[k + 1].deadline]_vars

\* the local list holds two active orders, the later-made one first, and
\* the store holds an order that is not active
C10_Witness ==
    /\ Len(groupOrders) = 2
    /\ groupOrders[1].id > groupOrders[2].id
    /\ groupOrders[1].deadline < groupOrders[2].deadline
    /\ Len(store) = 3
    /\ \E g \in 1..Len(store) : store[g].status # "active"

\* C11: a getActiveGroupOrders call, and loadGroupOrders taking its result or
\* its failure, leave the store as it is: no document is added and no field
\* of a stored document changes.
C11_ListLeavesStoreUnchanged ==
    [][(Poll \/ LoadDone) => store' = store]_vars

\* over a store that holds orders one load has failed and one has come back
\* with an order
C11_Witness ==
    /\ Len(store) >= 2
    /\ toast = "err_load"
    /\ Len(groupOrders) >= 1
    /\ loads = << >>

\* C12: in every step the status of each stored GroupOrder stays as it is
\* or moves from active to completed or expired; no GroupOrder leaves the
\* store.
C12_StatusOnlyForward ==
    [][\A g \in 1..Len(store) :
          /\ g <= Len(store')
          /\ \/ store'[g].status = store[g].status
             \/ /\ store[g].status = "active"
                /\ store'[g].status \in {"completed", "expired"}]_vars

\* a join has been written to an order that is completed
C12_Witness ==
    \E s \in Slots :
        /\ calls[s].out = "wrote"
        /\ store[calls[s].gid].status = "completed"
        /\ HasVendor(store[calls[s].gid].joinedVendors, calls[s].uid)

\* C13: in every reachable state each GroupOrder that the component created
\* is stored with status active.
C13_CreatedStaysActive ==
    \A g \in 1..Len(store) :
        store[g].origin = "ui" => store[g].status = "active"

\* an order the component created with its deadline ahead has its
\* minVendors members and its deadline is reached
C13_Witness ==
    \E g \in 1..Len(store) :
        /\ store[g].origin = "ui"
        /\ store[g].createdAt < store[g].deadline
        /\ store[g].minVendors >= 2
        /\ Len(store[g].joinedVendors) >= store[g].minVendors
        /\ IsExpired(store[g].deadline, now)
        /\ store[g].status = "active"

\* C14: a createGroupOrder call that stores nothing ends in the caller's
\* catch; a joinGroupOrder call that ends at its read of an existing order,
\* or at its write without the write having been made, has thrown; a call
\* that has thrown left the store as it was, and the component shows the
\* error and starts no reload; a getActiveGroupOrders call that failed ends
\* in loadGroupOrders' catch, with the store and the list as they were.
C14_StoreFailureSignalled ==
    [][/\ (CreateGroupOrderDone /\ Len(store') = Len(store))
          => (toast' = "err_create" /\ store' = store /\ dialogOpen' = dialogOpen)
       /\ \A s \in Slots :
            /\ (calls[s].pc = "getDoc" /\ calls'[s].pc = "done"
                /\ Exists(store, calls[s].gid))
               => calls'[s].out = "threw"
            /\ (calls[s].pc = "updateDoc" /\ calls'[s].pc = "done"
                /\ store'[calls[s].gid].joinedVendors # calls[s].upd)
               => calls'[s].out = "threw"
            /\ (calls[s].pc \in {"getDoc", "updateDoc"} /\ calls'[s].out = "threw")
               => /\ store' = store
                  /\ s = "ui" => (toast' = "err_join" /\ loads' = loads)
       /\ \A i \in 1..Len(loads) :
            (LoadDone /\ ~loads[i].ok /\ loads' = RemoveAt(loads, i))
            => (toast' = "err_load" /\ store' = store
                /\ groupOrders' = groupOrders)]_vars

\* the component's join of a stored order has failed and the order is as it
\* was: the user is not a member
C14_Witness ==
    /\ toast = "err_join"
    /\ calls["ui"].out = "threw"
    /\ Len(store) = 1
    /\ ~HasVendor(store[1].joinedVendors, user)

\* C15: when a joinGroupOrder call that follows a completed call of the same
\* caller for the same order, user and quantity, with no other join between
\* them, writes, the store is left exactly as it was: same members, same
\* quantities, same join times, same order.
C15_SameJoinTwiceIdempotent ==
    [][\A s \in Slots :
          (calls[s].pc = "updateDoc" /\ calls[s].prev = "same"
           /\ calls'[s].out = "wrote")
          => store' = store]_vars

\* the second call has written, later than the first
C15_Witness ==
    \E s \in Slots :
        /\ calls[s].out = "wrote"
        /\ calls[s].prev = "same"
        /\ \E i \in 1..Len(store[calls[s].gid].joinedVendors) :
              /\ store[calls[s].gid].joinedVendors[i].userId = calls[s].uid
              /\ store[calls[s].gid].joinedVendors[i].quantity = calls[s].qty
              /\ store[calls[s].gid].joinedVendors[i].joinedAt < now

\* C16: in every reachable state every membership entry of every stored
\* GroupOrder has a quantity of at least 1.
C16_QuantityAtLeastOne ==
    \A g \in 1..Len(store) : \A i \in 1..Len(store[g].joinedVendors) :
        store[g].joinedVendors[i].quantity >= 1

\* C17: for memberCount >= 0 and minVendors >= 2, getProgressPercentage is
\* min(memberCount / minVendors * 100, 100): it is never above 100, and it is
\* 100 exactly when memberCount >= minVendors.
C17_ProgressPercentage ==
    (helper.fn = "getProgressPercentage" /\ helper.pc = "returned"
     /\ helper.args[2] >= 2)
    => LET memberCount == helper.args[1]
           minVendors == helper.args[2]
           out == helper.out
       IN  /\ out.den > 0
           /\ IF memberCount * 100 <= 100 * minVendors
              THEN out.num * minVendors = memberCount * 100 * out.den
              ELSE out.num = 100 * out.den
           /\ out.num <= 100 * out.den
           /\ (out.num = 100 * out.den) <=> (memberCount >= minVendors)

\* more members than asked for: 100
C17_Witness ==
    /\ helper.fn = "getProgressPercentage"
    /\ helper.pc = "returned"
    /\ helper.args[2] >= 2
    /\ helper.args[1] > helper.args[2]
    /\ helper.out.num = 100 * helper.out.den

\* C18: getTimeRemaining gives the expired indicator exactly when the
\* instant of the call is at or after the deadline, and otherwise a text
\* that ends in a unit; 31 seconds after its making an order whose deadline
\* was 30 seconds ahead shows as expired.
C18_ExpiredIffDeadlineReached ==
    (helper.fn = "getTimeRemaining" /\ helper.pc = "returned")
    => LET deadline == helper.args[1]
           t == helper.args[2]
       IN  /\ (helper.out = Expired) <=> (t >= deadline)
           /\ t < deadline => helper.out[Len(helper.out)] \in {"h", "m"}
           /\ (\E made \in Instants : deadline = made + 30000 /\ t = made + 31000)
              => helper.out = Expired

\* the order of the scenario, looked at one second after its deadline
C18_Witness ==
    /\ helper.fn = "getTimeRemaining"
    /\ helper.pc = "returned"
    /\ \E made \in Instants :
          /\ helper.args[1] = made + 30000
          /\ helper.args[2] = made + 31000
    /\ helper.out = Expired

\* C19: for a remaining time r > 0, getTimeRemaining shows days and hours
\* when r is a day or more, hours and minutes when r is an hour or more and
\* less than a day, and minutes when r is less than an hour; the numbers are
\* the whole days, the whole hours within the day (0..23) and the whole
\* minutes within the hour (0..59).
C19_TimeRemainingResolution ==
    (helper.fn = "getTimeRemaining" /\ helper.pc = "returned"
     /\ helper.args[1] > helper.args[2])
    => LET r == helper.args[1] - helper.args[2]
           out == helper.out
       IN  /\ r >= MsPerDay
              => /\ Len(out) = 4 /\ out[2] = "d" /\ out[4] = "h"
                 /\ out[1] >= 1 /\ out[3] \in 0..23
                 /\ out[1] * MsPerDay + out[3] * MsPerHour <= r
                 /\ r < out[1] * MsPerDay + (out[3] + 1) * MsPerHour
           /\ (r >= MsPerHour /\ r < MsPerDay)
              => /\ Len(out) = 4 /\ out[2] = "h" /\ out[4] = "m"
                 /\ out[1] \in 1..23 /\ out[3] \in 0..59
                 /\ out[1] * MsPerHour + out[3] * MsPerMinute <= r
                 /\ r < out[1] * MsPerHour + (out[3] + 1) * MsPerMinute
           /\ r < MsPerHour
              => /\ Len(out) = 2 /\ out[2] = "m"
                 /\ out[1] \in 0..59
                 /\ out[1] * MsPerMinute <= r
                 /\ r < (out[1] + 1) * MsPerMinute

\* a day and 23 hours and more are left
C19_Witness ==
    /\ helper.fn = "getTimeRemaining"
    /\ helper.pc = "returned"
    /\ helper.args[1] - helper.args[2] > MsPerDay + 23 * MsPerHour
    /\ helper.out = <<1, "d", 23, "h">>

\* the quantities of a membership list added up from its end
RECURSIVE SumFromEnd(_)
SumFromEnd(vendors) ==
    IF vendors = << >> THEN 0
    ELSE SumFromEnd(SubSeq(vendors, 1, Len(vendors) - 1))
           + vendors[Len(vendors)].quantity

\* C20: getTotalQuantity of every stored GroupOrder is the sum of the
\* quantities of its members; and when an order made with minVendors 3 holds
\* its creator with quantity 1 and one further user with quantity 2, and a
\* join of another user with quantity 2 is written, the membership has
\* three entries, getTotalQuantity is 5 and getProgressPercentage is 100.
C20_TotalQuantityIsSum ==
    [][/\ \A g \in 1..Len(store') :
            GetTotalQuantity(store'[g]) = SumFromEnd(store'[g].joinedVendors)
       /\ \A s \in Slots :
            LET g == store[calls[s].gid]
                after == store'[calls[s].gid]
            IN  (/\ calls[s].pc = "updateDoc"
                 /\ calls'[s].out = "wrote"
                 /\ calls[s].qty = 2
                 /\ g.minVendors = 3
                 /\ Len(g.joinedVendors) = 2
                 /\ g.joinedVendors[1].userId = g.createdBy
                 /\ g.joinedVendors[1].quantity = 1
                 /\ g.joinedVendors[2].quantity = 2
                 /\ ~HasVendor(g.joinedVendors, calls[s].uid))
                => /\ Len(after.joinedVendors) = 3
                   /\ GetTotalQuantity(after) = 5
                   /\ LET progress == GetProgressPercentage(
                                          Len(after.joinedVendors), after.minVendors)
                      IN  progress.num = 100 * progress.den]_vars

\* the order of the scenario after the two joins
C20_Witness ==
    \E g \in 1..Len(store) :
        /\ store[g].minVendors = 3
        /\ Len(store[g].joinedVendors) = 3
        /\ store[g].joinedVendors[1].quantity = 1
        /\ store[g].joinedVendors[2].quantity = 2
        /\ store[g].joinedVendors[3].quantity = 2
        /\ GetTotalQuantity(store[g]) = 5

\* the membership lists an order of another client can come to hold when
\* the users other than the component's join it
RECURSIVE JoinedLists(_)
JoinedLists(n) ==
    IF n = 0 THEN {DirectOrder(0, MaxMinute, "active").joinedVendors}
    ELSE JoinedLists(n - 1)
           \cup {UpdatedVendors(v, u, q, 0) :
                    v \in JoinedLists(n - 1), u \in Users \ {"u1"}, q \in {1}}

\* the local list shows order g with membership v
Shows(g, v) ==
    \E k \in 1..Len(groupOrders) :
        groupOrders[k].id = g /\ groupOrders[k].joinedVendors = v

\* C21: with the poll timer firing and the store answering, whenever an
\* active GroupOrder holds a membership that another user's join has
\* written, the local list comes to show that membership, unless the stored
\* membership changes again before.
C21_MembershipEventuallyShown ==
    \A g \in 1..MaxOrders : \A v \in JoinedLists(1) :
        (IF g <= Len(store)
         THEN /\ store[g].status = "active"
              /\ store[g].joinedVendors = v
              /\ \E u \in Users \ {"u1"} : HasVendor(v, u)
         ELSE FALSE)
        ~> (Shows(g, v) \/ IF g <= Len(store) THEN store[g].joinedVendors # v ELSE TRUE)

\* the local list shows another user as a member, as stored
C21_Witness ==
    \E g \in 1..Len(store) :
        /\ HasVendor(store[g].joinedVendors, "u2")
        /\ Shows(g, store[g].joinedVendors)
        /\ loads = << >>

\* C22: the membership list of every stored GroupOrder is in join order:
\* joinedAt never decreases along the list and the first entry is the
\* creator's, whatever the interleaving of the joins.
C22_MembershipInJoinOrder ==
    \A g \in 1..Len(store) :
        LET v == store[g].joinedVendors
        IN  /\ Len(v) >= 1
            /\ v[1].userId = store[g].createdBy
            /\ \A i \in 1..(Len(v) - 1) : v[i].joinedAt <= v[i + 1].joinedAt

\* an order whose second member joined at a later instant than the creator,
\* written by a call that another call's write had overtaken
C22_Witness ==
    \E g \in 1..Len(store) : \E s \in DirectSlots :
        LET v == store[g].joinedVendors
        IN  /\ Len(v) = 2
            /\ v[1].joinedAt < v[2].joinedAt
            /\ calls[s].pc = "done" /\ calls[s].out = "wrote"
            /\ calls[s].uid = v[2].userId
            /\ \E r \in DirectSlots \ {s} :
                  calls[r].pc = "done" /\ calls[r].out = "wrote" /\ calls[r].uid # calls[s].uid

\* C26: the creator of a GroupOrder made in the component is a member of
\* it in every state, so that its membership list is never empty, whatever
\* the interleaving of the joins, lost updates included.
C26_CreatorStaysMember ==
    \A g \in 1..Len(store) :
        store[g].origin = "ui" =>
            /\ HasVendor(store[g].joinedVendors, store[g].createdBy)
            /\ Len(store[g].joinedVendors) >= 1

\* an order made in the component on which a join was lost: two calls for
\* different users wrote, and the list holds the creator alone
C26_Witness ==
    \E g \in 1..Len(store) :
        /\ store[g].origin = "ui"
        /\ Len(store[g].joinedVendors) = 1
        /\ calls["d1"].pc = "done" /\ calls["d1"].out = "wrote" /\ calls["d1"].gid = g
        /\ calls["d2"].pc = "done" /\ calls["d2"].out = "wrote" /\ calls["d2"].gid = g
        /\ calls["d1"].uid # calls["d2"].uid

\* C23: a joinGroupOrder call for a user who is not in the list it read
\* writes that list with one entry appended, stamped with the instant of the
\* call, and every entry read unchanged at its place; a call for a user who
\* is in the list writes a list of the same length in which only that
\* user's quantity differs, joinedAt and position kept.
C23_JoinAppendsOrReplacesInPlace ==
    [][\A s \in Slots :
          /\ (calls[s].pc = "getDoc" /\ calls'[s].pc = "updateDoc") =>
                LET read == store[calls[s].gid].joinedVendors
                    upd  == calls'[s].upd
                    u    == calls[s].uid
                    q    == calls[s].qty
                IN  IF HasVendor(read, u)
                    THEN /\ Len(upd) = Len(read)
                         /\ \A i \in 1..Len(read) :
                               IF read[i].userId = u
                               THEN /\ upd[i].userId = u
                                    /\ upd[i].quantity = q
                                    /\ upd[i].joinedAt = read[i].joinedAt
                               ELSE upd[i] = read[i]
                    ELSE /\ Len(upd) = Len(read) + 1
                         /\ upd[Len(upd)] = [userId |-> u, quantity |-> q, joinedAt |-> now]
                         /\ \A i \in 1..Len(read) : upd[i] = read[i]
          /\ (calls[s].pc = "updateDoc" /\ calls'[s].out = "wrote") =>
                store'[calls[s].gid].joinedVendors = calls[s].upd
      ]_vars

\* a user who joined before a second one has joined again later: three
\* entries, that user's in the middle with the quantity of the last call,
\* its joinedAt earlier than the instant of that call
C23_Witness ==
    \E g \in 1..Len(store) :
        LET v == store[g].joinedVendors
        IN  /\ Len(v) = 3
            /\ calls["d1"].pc = "done" /\ calls["d1"].out = "wrote"
            /\ calls["d1"].prev = "none"
            /\ calls["d1"].gid = g
            /\ v[2].userId = calls["d1"].uid
            /\ v[2].quantity = 2
            /\ v[2].joinedAt < v[3].joinedAt
            /\ v[3].joinedAt < now

\* C27: when the joinGroupOrder calls on a GroupOrder follow one another,
\* no step removes a member or shortens a membership list, and a call that
\* returns after its write leaves its user a member.
C27_MembershipOnlyGrows ==
    [][/\ \A g \in 1..Len(store) :
             /\ Len(store'[g].joinedVendors) >= Len(store[g].joinedVendors)
             /\ \A u \in Users \cup {store[g].createdBy} :
                   HasVendor(store[g].joinedVendors, u)
                       => HasVendor(store'[g].joinedVendors, u)
       /\ \A s \in Slots :
             (calls[s].pc = "updateDoc" /\ calls'[s].out = "wrote")
                 => HasVendor(store'[calls[s].gid].joinedVendors, calls[s].uid)
      ]_vars

\* both users have joined the order of a third, one call after the other
C27_Witness ==
    \E g \in 1..Len(store) :
        /\ Len(store[g].joinedVendors) = 3
        /\ \A u \in Users : HasVendor(store[g].joinedVendors, u)
        /\ calls["d1"].pc = "done"
        /\ calls["d1"].out = "wrote"
        /\ calls["d2"].pc = "idle"

\* C24: a joinGroupOrder call changes nothing in the store but the
\* membership list of the GroupOrder it names: its read changes nothing,
\* and its write leaves every other field of that order and every other
\* order as they were.
C24_JoinChangesMembershipOnly ==
    [][\A s \in Slots :
          /\ (calls[s].pc = "getDoc" /\ calls'[s] # calls[s]) => store' = store
          /\ (calls[s].pc = "updateDoc" /\ calls'[s] # calls[s]) =>
                /\ Len(store') = Len(store)
                /\ \A g \in 1..Len(store) :
                      IF g = calls[s].gid
                      THEN [store'[g] EXCEPT !.joinedVendors = store[g].joinedVendors]
                               = store[g]
                      ELSE store'[g] = store[g]
      ]_vars

\* a join has been written to the first of several orders, the others
\* holding their creator alone
C24_Witness ==
    /\ Len(store) >= 2
    /\ calls["d1"].pc = "done"
    /\ calls["d1"].out = "wrote"
    /\ calls["d1"].gid = 1
    /\ Len(store[1].joinedVendors) >= 2
    /\ store[1].status # "active"
    /\ \A g \in 2..Len(store) : Len(store[g].joinedVendors) = 1

\* C25: a joinGroupOrder call begins with its one read; the answer to the
\* read ends the call or issues its one write, and the answer to the write
\* ends the call; a failure ends the call with nothing written and no
\* request repeated.  The createGroupOrder call of the component has one
\* write in flight, whose answer ends it, adding at most one document.
C25_OneReadAtMostOneWrite ==
    [][/\ \A s \in Slots :
             /\ calls[s].pc \in {"idle", "done"}
                   => calls'[s].pc \in {calls[s].pc, "getDoc"}
             /\ calls[s].pc = "getDoc"
                   => /\ calls'[s].pc \in {"getDoc", "updateDoc", "done"}
                      /\ calls'[s] # calls[s] => store' = store
             /\ calls[s].pc = "updateDoc"
                   => calls'[s].pc \in {"updateDoc", "done"}
             /\ (calls'[s] # calls[s] /\ calls'[s].out = "threw")
                   => (calls'[s].pc = "done" /\ store' = store)
       /\ (\E g \in 1..Len(store) : store'[g] # store[g])
             => \E s \in Slots :
                   /\ calls[s].pc = "updateDoc" /\ calls'[s].pc = "done"
                   /\ calls'[s].out = "wrote"
                   /\ \A r \in Slots \ {s} : calls'[r] = calls[r]
       /\ uiCreate.pc = "addDoc" => uiCreate'.pc \in {"addDoc", "idle"}
       /\ (uiCreate.pc = "addDoc" /\ uiCreate'.pc = "idle")
             => /\ Len(store') <= Len(store) + 1
                /\ toast' = "err_create" => store' = store
      ]_vars

\* the component's join of another client's order has been read, written
\* and reported, and no request of it is in flight
C25_Witness ==
    /\ calls["ui"].pc = "done"
    /\ calls["ui"].out = "wrote"
    /\ toast = "ok_join"
    /\ uiCreate.pc = "idle"
    /\ \E g \in 1..Len(store) :
          /\ store[g].origin = "direct"
          /\ Len(store[g].joinedVendors) = 2
          /\ store[g].joinedVendors[2].userId = user

\* C28: every membership entry of every stored GroupOrder has a joinedAt
\* strictly before the deadline of its GroupOrder.
C28_NoEntryAtOrAfterDeadline ==
    \A g \in 1..Len(store) :
        \A i \in 1..Len(store[g].joinedVendors) :
            store[g].joinedVendors[i].joinedAt < store[g].deadline

\* C29: a response to an earlier load never overwrites the result of a
\* later one.  Where the store only gains active orders, the result of a
\* later load holds every order of an earlier one, so that no response
\* replaces the local list by a shorter one.
C29_EarlierLoadNeverOverwrites ==
    [][LoadDone => Len(groupOrders') >= Len(groupOrders)]_vars

\* C30: the stored status of a direct Order changes only from pending to
\* confirmed, from pending to rejected and from confirmed to completed; a
\* rejected or completed Order never changes status again.
C30_OrderStatusTransitions ==
    [][\A id \in 1..Len(orderStore) :
          orderStore'[id].status # orderStore[id].status
              => <<orderStore[id].status, orderStore'[id].status>>
                    \in {<<"pending", "confirmed">>, <<"pending", "rejected">>,
                         <<"confirmed", "completed">>}
      ]_vars

====
